---- MODULE Spec2Model ----
(***************************************************************************)
(* Model of scripts/generate_data.py, the SparkCity synthetic IoT data     *)
(* generator: main(), SmartCityDataGenerator.__init__, generate_timestamps, *)
(* the five generate_* methods and generate_all_data.                      *)
(*                                                                         *)
(* Representation.                                                         *)
(*  - An instant is an integer number of seconds since a Monday 00:00:00   *)
(*    (datetime.weekday() is 0 on Monday).  datetime carries microseconds;  *)
(*    one model tick is one second, so two clock readings are either equal  *)
(*    or at least one tick apart.                                          *)
(*  - Latitudes and longitudes are integers counting 1e-4 degree.          *)
(*  - Measurements are fixed-point integers counting 1/Unit.               *)
(*  - np.random is unseeded: every variate is a nondeterministic input,    *)
(*    drawn from a bounded sample set.                                     *)
(***************************************************************************)
EXTENDS Integers, Sequences, FiniteSets, TLC

VARIABLES
    pc,          \* position of main(): "main", the running generator, "report", "exit"
    gpc,         \* position inside a generator: "idle", "ts_loop", "rows"
    start_time,  \* self.start_time (None before __init__)
    end_time,    \* self.end_time
    console,     \* what has been printed so far
    files,       \* output files completely written, in order of writing
    exit_code,   \* value returned by main() (None while running)
    sensors,     \* the generator's sensor list (sensor_locations, monitor_locations, ...)
    interval,    \* generate_timestamps' interval_minutes
    current,     \* generate_timestamps' loop variable
    timestamps,  \* generate_timestamps' list, then the generator's local
    ti,          \* index of the next timestamp of the generator's outer loop
    batch,       \* the rows appended by the latest iteration of the outer loop
    nrecords,    \* len() of the generator's table so far
    returned,    \* results of the completed generate_timestamps calls (TsSpec)
    variates,    \* the random variates one execution of a loop body drew (RecSpec)
    rec          \* the row one execution of a loop body appended (RecSpec)

vars == <<pc, gpc, start_time, end_time, console, files, exit_code, sensors,
          interval, current, timestamps, ti, batch, nrecords, returned, variates,
          rec>>

None == 0 - 1

----------------------------------------------------------------------------
(* Program constants. *)

NUM_DAYS == 7
SECONDS_PER_MINUTE == 60
SECONDS_PER_HOUR == 3600
SECONDS_PER_DAY == 86400

CITY_LAT_MIN == 407000
CITY_LAT_MAX == 408000
CITY_LON_MIN == -740200
CITY_LON_MAX == -739000

NUM_TRAFFIC_SENSORS == 50
NUM_AQ_MONITORS == 20
NUM_WEATHER_STATIONS == 10
NUM_ENERGY_METERS == 200

TRAFFIC_INTERVAL == 5
AQ_INTERVAL == 15
WEATHER_INTERVAL == 30
ENERGY_INTERVAL == 10

road_types == <<"highway", "arterial", "residential", "commercial">>
building_types == <<"residential", "commercial", "industrial", "office", "retail">>

(* Bounds of the model. *)

MaxNowOffset == 1     \* first clock reading: one week after the epoch plus 0..MaxNowOffset s
MaxClockDelta == 1    \* second clock reading: 0..MaxClockDelta ticks after the first
MaxSeed == 1          \* random streams 0..MaxSeed for the sensor lists
UnitSteps == 4        \* a uniform variate is k/UnitSteps, k in 0..UnitSteps
MaxStart == 2         \* TsSpec: start_time in 0..MaxStart
MaxWindow == 130      \* TsSpec: end_time - start_time in 1..MaxWindow seconds
MaxIntervalMin == 2   \* TsSpec: interval_minutes in 1..MaxIntervalMin
MaxCalls == 2         \* TsSpec: successive calls of generate_timestamps
MaxZ == 36            \* RecSpec: vehicle-count variate, -MaxZ..MaxZ twelfths of a sigma
MaxSigma == 4         \* RecSpec: other normal variates, -MaxSigma, 0 or MaxSigma sigmas
MaxExp == 3           \* RecSpec: standard exponential variates 0..MaxExp

----------------------------------------------------------------------------
(* String formatting. *)

Digits == <<"0", "1", "2", "3", "4", "5", "6", "7", "8", "9">>

RECURSIVE DecStr(_)
DecStr(n) == IF n < 10 THEN Digits[n + 1]
             ELSE DecStr(n \div 10) \o Digits[(n % 10) + 1]

RECURSIVE ZeroPad(_, _)
ZeroPad(s, w) == IF Len(s) < w THEN ZeroPad("0" \o s, w) ELSE s

\* f"{i:0Wd}": decimal, left-padded with zeros to at least W characters
FormatId(prefix, i, width) == prefix \o ZeroPad(DecStr(i), width)

hour(t) == (t \div SECONDS_PER_HOUR) % 24
weekday(t) == (t \div SECONDS_PER_DAY) % 7

\* datetime.isoformat(): <date>T<HH>:<MM>:<SS>; the date is the day number
isoformat(t) ==
    DecStr(t \div SECONDS_PER_DAY) \o "T"
        \o ZeroPad(DecStr(hour(t)), 2) \o ":"
        \o ZeroPad(DecStr((t \div SECONDS_PER_MINUTE) % 60), 2) \o ":"
        \o ZeroPad(DecStr(t % 60), 2)

----------------------------------------------------------------------------
(* Random variates of the sensor lists. *)

\* the n-th uniform variate, in UnitSteps-ths, of random stream `seed`
Stream(seed, n) == (seed + n * (2 * seed + 1)) % (UnitSteps + 1)

\* np.random.uniform(low, high) for the variate u/UnitSteps
Uniform(low, high, u) == low + ((high - low) * u) \div UnitSteps

\* np.random.choice(list) for the variate u
Choice(list, u) == list[(u % Len(list)) + 1]

----------------------------------------------------------------------------
(* Sensor lists: built once, at the start of a generator. *)

\* generate_traffic_sensors: sensor_locations
sensor_locations(seed) ==
    [i \in 1..NUM_TRAFFIC_SENSORS |->
        [sensor_id |-> FormatId("TRAFFIC_", i, 3),
         lat |-> Uniform(CITY_LAT_MIN, CITY_LAT_MAX, Stream(seed, 3 * (i - 1))),
         lon |-> Uniform(CITY_LON_MIN, CITY_LON_MAX, Stream(seed, 3 * (i - 1) + 1)),
         road_type |-> Choice(road_types, Stream(seed, 3 * (i - 1) + 2))]]

\* generate_air_quality_data: monitor_locations
monitor_locations(seed) ==
    [i \in 1..NUM_AQ_MONITORS |->
        [sensor_id |-> FormatId("AQ_", i, 3),
         lat |-> Uniform(CITY_LAT_MIN, CITY_LAT_MAX, Stream(seed, 2 * (i - 1))),
         lon |-> Uniform(CITY_LON_MIN, CITY_LON_MAX, Stream(seed, 2 * (i - 1) + 1))]]

\* generate_weather_data: station_locations
station_locations(seed) ==
    [i \in 1..NUM_WEATHER_STATIONS |->
        [station_id |-> FormatId("WEATHER_", i, 3),
         lat |-> Uniform(CITY_LAT_MIN, CITY_LAT_MAX, Stream(seed, 2 * (i - 1))),
         lon |-> Uniform(CITY_LON_MIN, CITY_LON_MAX, Stream(seed, 2 * (i - 1) + 1))]]

\* generate_energy_data: meter_locations
meter_locations(seed) ==
    [i \in 1..NUM_ENERGY_METERS |->
        [meter_id |-> FormatId("ENERGY_", i, 4),
         lat |-> Uniform(CITY_LAT_MIN, CITY_LAT_MAX, Stream(seed, 3 * (i - 1))),
         lon |-> Uniform(CITY_LON_MIN, CITY_LON_MAX, Stream(seed, 3 * (i - 1) + 1)),
         building_type |-> Choice(building_types, Stream(seed, 3 * (i - 1) + 2))]]

----------------------------------------------------------------------------
(* The identifying columns a loop body copies into its row. *)

TrafficKey(t, sensor) ==
    [sensor_id |-> sensor.sensor_id, timestamp |-> isoformat(t),
     location_lat |-> sensor.lat, location_lon |-> sensor.lon,
     road_type |-> sensor.road_type]

AirQualityKey(t, monitor) ==
    [sensor_id |-> monitor.sensor_id, timestamp |-> isoformat(t),
     location_lat |-> monitor.lat, location_lon |-> monitor.lon]

WeatherKey(t, station) ==
    [station_id |-> station.station_id, timestamp |-> isoformat(t),
     location_lat |-> station.lat, location_lon |-> station.lon]

EnergyKey(t, meter) ==
    [meter_id |-> meter.meter_id, timestamp |-> isoformat(t),
     building_type |-> meter.building_type,
     location_lat |-> meter.lat, location_lon |-> meter.lon]

\* generate_city_zones: zones_data (lat/lon in 1e-4 degree)
zones_data ==
    << [zone_id |-> "ZONE_001", zone_name |-> "Downtown", zone_type |-> "commercial",
        lat_min |-> 407200, lat_max |-> 407400, lon_min |-> -740100, lon_max |-> -739900,
        population |-> 25000],
       [zone_id |-> "ZONE_002", zone_name |-> "Financial District", zone_type |-> "commercial",
        lat_min |-> 407000, lat_max |-> 407200, lon_min |-> -740200, lon_max |-> -740000,
        population |-> 15000],
       [zone_id |-> "ZONE_003", zone_name |-> "Residential North", zone_type |-> "residential",
        lat_min |-> 407600, lat_max |-> 408000, lon_min |-> -740000, lon_max |-> -739800,
        population |-> 45000],
       [zone_id |-> "ZONE_004", zone_name |-> "Residential South", zone_type |-> "residential",
        lat_min |-> 407000, lat_max |-> 407200, lon_min |-> -739800, lon_max |-> -739600,
        population |-> 38000],
       [zone_id |-> "ZONE_005", zone_name |-> "Industrial Park", zone_type |-> "industrial",
        lat_min |-> 407400, lat_max |-> 407600, lon_min |-> -740200, lon_max |-> -740000,
        population |-> 5000],
       [zone_id |-> "ZONE_006", zone_name |-> "Tech Campus", zone_type |-> "commercial",
        lat_min |-> 407600, lat_max |-> 407800, lon_min |-> -739800, lon_max |-> -739600,
        population |-> 12000],
       [zone_id |-> "ZONE_007", zone_name |-> "University Area", zone_type |-> "mixed",
        lat_min |-> 407200, lat_max |-> 407400, lon_min |-> -739600, lon_max |-> -739400,
        population |-> 22000],
       [zone_id |-> "ZONE_008", zone_name |-> "Shopping District", zone_type |-> "retail",
        lat_min |-> 407400, lat_max |-> 407600, lon_min |-> -739600, lon_max |-> -739400,
        population |-> 8000] >>

----------------------------------------------------------------------------
(* The run: main(), __init__, generate_all_data and the generators. *)

TimeSeriesGenerators ==
    {"generate_traffic_sensors", "generate_air_quality_data",
     "generate_weather_data", "generate_energy_data"}

Generators == TimeSeriesGenerators \cup {"generate_city_zones"}

\* fault: the air-quality and weather calls exchanged
CallOrder_swapped ==
    <<"generate_traffic_sensors", "generate_weather_data",
      "generate_air_quality_data", "generate_energy_data", "generate_city_zones">>

\* generate_all_data: the order of the calls
CallOrder ==
    <<"generate_traffic_sensors", "generate_air_quality_data",
      "generate_weather_data", "generate_energy_data", "generate_city_zones">>

IndexOf(g) == CHOOSE k \in 1..Len(CallOrder) : CallOrder[k] = g

\* what generate_all_data does after generator g returns
AfterGenerator(g) ==
    IF IndexOf(g) < Len(CallOrder) THEN CallOrder[IndexOf(g) + 1] ELSE "report"

\* output_path of each generator
OutputFile(g) ==
    CASE g = "generate_traffic_sensors" -> "traffic_sensors.csv"
      [] g = "generate_air_quality_data" -> "air_quality.json"
      [] g = "generate_weather_data" -> "weather_data.parquet"
      [] g = "generate_energy_data" -> "energy_meters.csv"
      [] g = "generate_city_zones" -> "city_zones.csv"

\* the interval_minutes each generator passes to generate_timestamps
IntervalOf(g) ==
    CASE g = "generate_traffic_sensors" -> TRAFFIC_INTERVAL
      [] g = "generate_air_quality_data" -> AQ_INTERVAL
      [] g = "generate_weather_data" -> WEATHER_INTERVAL
      [] g = "generate_energy_data" -> ENERGY_INTERVAL

SensorList(g, seed) ==
    CASE g = "generate_traffic_sensors" -> sensor_locations(seed)
      [] g = "generate_air_quality_data" -> monitor_locations(seed)
      [] g = "generate_weather_data" -> station_locations(seed)
      [] g = "generate_energy_data" -> meter_locations(seed)

\* fault: the row's latitude is drawn again for every row instead of copied
KeyOf_redrawn(g, t, s) ==
    LET lat == Uniform(CITY_LAT_MIN, CITY_LAT_MAX, Stream(0, t \div SECONDS_PER_MINUTE))
    IN  CASE g = "generate_traffic_sensors" ->
                [TrafficKey(t, s) EXCEPT !.location_lat = lat]
          [] g = "generate_air_quality_data" ->
                [AirQualityKey(t, s) EXCEPT !.location_lat = lat]
          [] g = "generate_weather_data" ->
                [WeatherKey(t, s) EXCEPT !.location_lat = lat]
          [] g = "generate_energy_data" ->
                [EnergyKey(t, s) EXCEPT !.location_lat = lat]

KeyOf(g, t, s) ==
    CASE g = "generate_traffic_sensors" -> TrafficKey(t, s)
      [] g = "generate_air_quality_data" -> AirQualityKey(t, s)
      [] g = "generate_weather_data" -> WeatherKey(t, s)
      [] g = "generate_energy_data" -> EnergyKey(t, s)

\* the clock readings datetime.now() can return in __init__
NowSamples == {NUM_DAYS * SECONDS_PER_DAY + d : d \in 0..MaxNowOffset}

NoLocals ==
    /\ gpc' = "idle"
    /\ sensors' = <<>>
    /\ interval' = None
    /\ current' = None
    /\ timestamps' = <<>>
    /\ ti' = 0
    /\ batch' = <<>>
    /\ nrecords' = 0

\* main's except clauses and its return value
ExitCodeFor(exc) == IF exc = "ImportError" THEN 0 ELSE 1

DiagnosticFor(exc) ==
    IF exc = "ImportError" THEN [msg |-> "Missing required package"]
    ELSE [msg |-> "Error generating data"]

Diagnostics == {[msg |-> "Missing required package"], [msg |-> "Error generating data"]}

SuccessMessage == [msg |-> "Smart City IoT data generation successful"]

Exceptions == {"ImportError", "Exception"}

\* an exception propagates to main's handlers: the locals are gone, the
\* diagnostic is printed and main returns
Raise(exc) ==
    /\ NoLocals
    /\ console' = Append(console, DiagnosticFor(exc))
    /\ exit_code' = ExitCodeFor(exc)
    /\ pc' = "exit"

\* SmartCityDataGenerator.__init__: two clock readings, mkdir, banner
Construct ==
    /\ pc = "main"
    /\ \E now1 \in NowSamples, d \in 0..MaxClockDelta :
          /\ start_time' = now1 - NUM_DAYS * SECONDS_PER_DAY
          /\ end_time' = now1 + d
    /\ console' = Append(console, [msg |-> "Generating Smart City IoT data"])
    /\ pc' = CallOrder[1]
    /\ UNCHANGED <<gpc, files, exit_code, sensors, interval, current, timestamps,
                   ti, batch, nrecords, returned, variates, rec>>

\* __init__ raises (DATA_DIR.mkdir fails)
ConstructFails ==
    /\ pc = "main"
    /\ \E exc \in Exceptions : Raise(exc)
    /\ UNCHANGED <<start_time, end_time, files, returned, variates, rec>>

\* a time-series generator up to its call of generate_timestamps
GeneratorBegin(g) ==
    /\ pc = g
    /\ gpc = "idle"
    /\ console' = Append(console, [msg |-> "Generating", generator |-> g])
    /\ \E seed \in 0..MaxSeed : sensors' = SensorList(g, seed)
    /\ interval' = IntervalOf(g)
    /\ timestamps' = <<>>
    /\ current' = start_time
    /\ gpc' = "ts_loop"
    /\ UNCHANGED <<pc, start_time, end_time, files, exit_code, ti, batch,
                   nrecords, returned, variates, rec>>

\* fault: the while condition with <= for <
InWindow_inclusive(cur) == cur <= end_time

\* generate_timestamps: the while condition
InWindow(cur) == cur < end_time

\* generate_timestamps: current += timedelta(minutes=interval_minutes)
Advance(cur, interval_minutes) == cur + interval_minutes * SECONDS_PER_MINUTE

\* generate_timestamps: one iteration of the while loop
TimestampsAppend ==
    /\ gpc = "ts_loop"
    /\ InWindow(current)
    /\ timestamps' = Append(timestamps, current)
    /\ current' = Advance(current, interval)
    /\ UNCHANGED <<pc, gpc, start_time, end_time, console, files, exit_code,
                   sensors, interval, ti, batch, nrecords, returned, variates, rec>>

\* generate_timestamps returns to the generator
TimestampsReturn ==
    /\ pc \in TimeSeriesGenerators
    /\ gpc = "ts_loop"
    /\ ~InWindow(current)
    /\ gpc' = "rows"
    /\ ti' = 1
    /\ current' = None
    /\ UNCHANGED <<pc, start_time, end_time, console, files, exit_code, sensors,
                   interval, timestamps, batch, nrecords, returned, variates, rec>>

\* fault: the inner loop misses the last sensor
RowsAppend_short ==
    /\ pc \in TimeSeriesGenerators
    /\ gpc = "rows"
    /\ ti <= Len(timestamps)
    /\ batch' = [j \in 1..(Len(sensors) - 1) |-> KeyOf(pc, timestamps[ti], sensors[j])]
    /\ nrecords' = nrecords + Len(sensors) - 1
    /\ ti' = ti + 1
    /\ UNCHANGED <<pc, gpc, start_time, end_time, console, files, exit_code,
                   sensors, interval, current, timestamps, returned, variates, rec>>

\* one iteration of `for timestamp in timestamps`: a row per sensor
RowsAppend ==
    /\ pc \in TimeSeriesGenerators
    /\ gpc = "rows"
    /\ ti <= Len(timestamps)
    /\ batch' = [j \in 1..Len(sensors) |-> KeyOf(pc, timestamps[ti], sensors[j])]
    /\ nrecords' = nrecords + Len(sensors)
    /\ ti' = ti + 1
    /\ UNCHANGED <<pc, gpc, start_time, end_time, console, files, exit_code,
                   sensors, interval, current, timestamps, returned, variates, rec>>

\* generate_city_zones up to its table
ZonesBegin ==
    /\ pc = "generate_city_zones"
    /\ gpc = "idle"
    /\ console' = Append(console, [msg |-> "Generating", generator |-> pc])
    /\ batch' = zones_data
    /\ nrecords' = Len(zones_data)
    /\ gpc' = "rows"
    /\ ti' = 1
    /\ UNCHANGED <<pc, start_time, end_time, files, exit_code, sensors, interval,
                   current, timestamps, returned, variates, rec>>

\* the generator's loop is over (generate_city_zones has none)
TableComplete == gpc = "rows" /\ ti > Len(timestamps)

\* the table is complete: write the file, print the count, return
WriteFile ==
    /\ pc \in Generators
    /\ TableComplete
    /\ files' = Append(files, OutputFile(pc))
    /\ console' = Append(console, [msg |-> "Generated", records |-> nrecords,
                                    file |-> OutputFile(pc)])
    /\ pc' = AfterGenerator(pc)
    /\ NoLocals
    /\ UNCHANGED <<start_time, end_time, exit_code, returned, variates, rec>>

\* a generator raises, anywhere before its file is written
GeneratorFails ==
    /\ pc \in Generators
    /\ \E exc \in Exceptions : Raise(exc)
    /\ UNCHANGED <<start_time, end_time, files, returned, variates, rec>>

\* generate_all_data's report, main's success message and return 0
Finish ==
    /\ pc = "report"
    /\ console' = Append(console, SuccessMessage)
    /\ exit_code' = 0
    /\ pc' = "exit"
    /\ UNCHANGED <<gpc, start_time, end_time, files, sensors, interval, current,
                   timestamps, ti, batch, nrecords, returned, variates, rec>>

NoRecord == [dataset |-> "none"]

Init ==
    /\ pc = "main"
    /\ gpc = "idle"
    /\ start_time = None
    /\ end_time = None
    /\ console = <<>>
    /\ files = <<>>
    /\ exit_code = None
    /\ sensors = <<>>
    /\ interval = None
    /\ current = None
    /\ timestamps = <<>>
    /\ ti = 0
    /\ batch = <<>>
    /\ nrecords = 0
    /\ returned = <<>>
    /\ variates = <<>>
    /\ rec = NoRecord

Next ==
    \/ Construct
    \/ ConstructFails
    \/ \E g \in TimeSeriesGenerators : GeneratorBegin(g)
    \/ TimestampsAppend
    \/ TimestampsReturn
    \/ RowsAppend
    \/ ZonesBegin
    \/ WriteFile
    \/ GeneratorFails
    \/ Finish

Spec == Init /\ [][Next]_vars

----------------------------------------------------------------------------
(* generate_timestamps as a function of start_time, end_time and            *)
(* interval_minutes: TsSpec calls it on a generator with any window.        *)

TsInit ==
    /\ pc = "caller"
    /\ gpc = "idle"
    /\ start_time \in 0..MaxStart
    /\ end_time \in (start_time + 1)..(start_time + MaxWindow)
    /\ console = <<>>
    /\ files = <<>>
    /\ exit_code = None
    /\ sensors = <<>>
    /\ interval = None
    /\ current = None
    /\ timestamps = <<>>
    /\ ti = 0
    /\ batch = <<>>
    /\ nrecords = 0
    /\ returned = <<>>
    /\ variates = <<>>
    /\ rec = NoRecord

\* generate_timestamps(interval_minutes) is entered
TsCall ==
    /\ pc = "caller"
    /\ gpc = "idle"
    /\ Len(returned) < MaxCalls
    /\ \E m \in 1..MaxIntervalMin : interval' = m
    /\ timestamps' = <<>>
    /\ current' = start_time
    /\ gpc' = "ts_loop"
    /\ UNCHANGED <<pc, start_time, end_time, console, files, exit_code, sensors,
                   ti, batch, nrecords, returned, variates, rec>>

\* generate_timestamps returns its list to the caller
TsReturn ==
    /\ pc = "caller"
    /\ gpc = "ts_loop"
    /\ ~InWindow(current)
    /\ returned' = Append(returned, [interval_minutes |-> interval, result |-> timestamps])
    /\ gpc' = "idle"
    /\ interval' = None
    /\ current' = None
    /\ timestamps' = <<>>
    /\ UNCHANGED <<pc, start_time, end_time, console, files, exit_code, sensors,
                   ti, batch, nrecords, variates, rec>>

TsNext ==
    \/ TsCall
    \/ TimestampsAppend
    \/ TsReturn

\* the interpreter keeps executing the statement it is at
TsSpec ==
    TsInit /\ [][TsNext]_vars /\ WF_vars(TimestampsAppend) /\ WF_vars(TsReturn)

----------------------------------------------------------------------------
(* The loop bodies: the row built for one (timestamp, sensor) pair from the *)
(* variates it draws.  Reals are integers counting 1/Unit.  A comparison    *)
(* with base_count * 0.7 or base_count * 1.5 is made on tenfold values: the *)
(* float products 30*0.7, 15*0.7, 30*1.5, 15*1.5 are exactly 21.0, 10.5,    *)
(* 45.0 and 22.5.                                                          *)

Unit == 12 * 100

Max(a, b) == IF a >= b THEN a ELSE b
Min(a, b) == IF a <= b THEN a ELSE b

\* np.random.normal(loc, scale) = loc + scale * z, z = k/12 standard normal
Normal(loc, scale, k) == loc + (scale * k) \div 12

\* np.random.exponential(scale) = scale * e, e standard exponential
Exponential(scale, e) == scale * e

\* int(x): truncation toward zero
IntTrunc(x) == IF x >= 0 THEN x \div Unit ELSE -((-x) \div Unit)

is_rush_hour(h) == (7 <= h /\ h <= 9) \/ (17 <= h /\ h <= 19)
is_weekend(t) == weekday(t) >= 5
is_business_hours(h) == 8 <= h /\ h <= 18

\* generate_traffic_sensors: base_count
base_count(road_type) == IF road_type = "highway" THEN 30 ELSE 15

\* generate_traffic_sensors: vehicle_count before the clamp
vehicle_count(rush, base, k) ==
    IF rush THEN IntTrunc(Normal(base * 2 * Unit, (base * 3 * Unit) \div 10, k))
    ELSE IntTrunc(Normal(base * Unit, (base * 4 * Unit) \div 10, k))

\* generate_traffic_sensors: avg_speed before the clamp
avg_speed(rush, k) ==
    IF rush THEN Max(10 * Unit, Normal(25 * Unit, 10 * Unit, k))
    ELSE Normal(50 * Unit, 15 * Unit, k)

\* fault: the thresholds compared with >= and <=
congestion_inclusive(rush, count, base) ==
    IF rush THEN (IF count * 10 >= base * 15 THEN "high" ELSE "medium")
    ELSE (IF count * 10 <= base * 7 THEN "low" ELSE "medium")

\* generate_traffic_sensors: congestion
congestion(rush, count, base) ==
    IF rush THEN (IF count * 10 > base * 15 THEN "high" ELSE "medium")
    ELSE (IF count * 10 < base * 7 THEN "low" ELSE "medium")

\* fault: vehicle_count written without its clamp
ClampCount_missing(count) == count

\* generate_traffic_sensors: the clamps of the appended row
ClampCount(count) == Max(0, count)
ClampSpeed(speed) == Max(5 * Unit, speed)

\* generate_traffic_sensors: the loop body
TrafficRecord(t, sensor, v) ==
    LET rush == is_rush_hour(hour(t)) /\ ~is_weekend(t)
        base == base_count(sensor.road_type)
        count == vehicle_count(rush, base, v.count)
    IN  [sensor_id |-> sensor.sensor_id,
         timestamp |-> isoformat(t),
         location_lat |-> sensor.lat,
         location_lon |-> sensor.lon,
         vehicle_count |-> ClampCount(count),
         avg_speed |-> ClampSpeed(avg_speed(rush, v.speed)),
         congestion_level |-> congestion(rush, count, base),
         road_type |-> sensor.road_type]

\* fault: only the morning rush hour raises the factor
pollution_factor_morning(h) == IF 7 <= h /\ h <= 9 THEN 13 ELSE 10

\* generate_air_quality_data: pollution_factor, in tenths
pollution_factor(h) == IF is_rush_hour(h) THEN 13 ELSE 10

\* generate_air_quality_data: max(0, np.random.normal(mean * pollution_factor, sd))
Pollutant(mean, factor, sd, k) == Max(0, Normal((mean * factor) \div 10, sd, k))

\* generate_air_quality_data: "temperature"
AirTemperature(k) == Normal(20 * Unit, 8 * Unit, k)

\* generate_air_quality_data: the loop body
AirQualityRecord(t, monitor, v) ==
    LET factor == pollution_factor(hour(t))
    IN  [sensor_id |-> monitor.sensor_id,
         timestamp |-> isoformat(t),
         location_lat |-> monitor.lat,
         location_lon |-> monitor.lon,
         pm25 |-> Pollutant(25 * Unit, factor, 8 * Unit, v.pm25),
         pm10 |-> Pollutant(40 * Unit, factor, 12 * Unit, v.pm10),
         no2 |-> Pollutant(30 * Unit, factor, 10 * Unit, v.no2),
         co |-> Pollutant((12 * Unit) \div 10, factor, (4 * Unit) \div 10, v.co),
         temperature |-> AirTemperature(v.temperature),
         humidity |-> Uniform(30 * Unit, 80 * Unit, v.humidity)]

\* generate_weather_data: "humidity"
WeatherHumidity(k) == Max(20 * Unit, Min(100 * Unit, Normal(60 * Unit, 15 * Unit, k)))

\* generate_weather_data: "precipitation"; p is np.random.random() in hundredths
Precipitation(p, e) == IF p < 10 THEN Max(0, Exponential(Unit \div 2, e)) ELSE 0

\* generate_weather_data: the inner loop body.  The unclamped columns
\* temperature, wind_direction and pressure are left out of the row.
WeatherRecord(t, station, v) ==
    [station_id |-> station.station_id,
     timestamp |-> isoformat(t),
     location_lat |-> station.lat,
     location_lon |-> station.lon,
     humidity |-> WeatherHumidity(v.humidity),
     wind_speed |-> Max(0, Exponential(8 * Unit, v.wind)),
     precipitation |-> Precipitation(v.p, v.rain)]

\* generate_energy_data: base_consumption
base_consumption(building_type) ==
    CASE building_type = "residential" -> 3 * Unit
      [] building_type = "commercial" -> 15 * Unit
      [] building_type = "industrial" -> 50 * Unit
      [] building_type = "office" -> 20 * Unit
      [] building_type = "retail" -> 25 * Unit

\* fault: the residential evening factor applied on weekdays only
consumption_factor_weekday(building_type, t) ==
    IF building_type \in {"commercial", "office", "retail"}
    THEN (IF is_business_hours(hour(t)) /\ ~is_weekend(t) THEN 15 ELSE 3)
    ELSE (IF building_type = "industrial" THEN 10
          ELSE (IF 18 <= hour(t) /\ hour(t) <= 22 /\ ~is_weekend(t) THEN 12 ELSE 8))

\* generate_energy_data: consumption_factor, in tenths
consumption_factor(building_type, t) ==
    IF building_type \in {"commercial", "office", "retail"}
    THEN (IF is_business_hours(hour(t)) /\ ~is_weekend(t) THEN 15 ELSE 3)
    ELSE (IF building_type = "industrial" THEN 10
          ELSE (IF 18 <= hour(t) /\ hour(t) <= 22 THEN 12 ELSE 8))

\* base * factor * u, for a factor in tenths
Power(base, factor, u) == (((base * factor) \div 10) * u) \div Unit

\* generate_energy_data: the loop body.  The columns voltage, current and
\* power_factor are left out of the row.
EnergyRecord(t, meter, v) ==
    [meter_id |-> meter.meter_id,
     timestamp |-> isoformat(t),
     building_type |-> meter.building_type,
     location_lat |-> meter.lat,
     location_lon |-> meter.lon,
     power_consumption |->
         Power(base_consumption(meter.building_type),
               consumption_factor(meter.building_type, t),
               Uniform((7 * Unit) \div 10, (13 * Unit) \div 10, v.u))]

----------------------------------------------------------------------------
(* RecSpec: one execution of a loop body, for any timestamp of a week, any  *)
(* kind of sensor and any variates.                                        *)

\* an instant in every hour of every weekday, at its first or its last second
TsSamples ==
    {d * SECONDS_PER_DAY + h * SECONDS_PER_HOUR + ((d + h) % 2) * (SECONDS_PER_HOUR - 1) :
        d \in 0..6, h \in 0..23}

SensorSamples(g) ==
    CASE g = "generate_traffic_sensors" ->
            {[sensor_locations(0)[1] EXCEPT !.road_type = road_types[r]] :
                r \in 1..Len(road_types)}
      [] g = "generate_energy_data" ->
            {[meter_locations(0)[1] EXCEPT !.building_type = building_types[b]] :
                b \in 1..Len(building_types)}
      [] OTHER -> {SensorList(g, 0)[1]}

CoarseZ == {(0 - MaxSigma) * 12, 0, MaxSigma * 12}

RecInit ==
    /\ pc \in TimeSeriesGenerators
    /\ gpc = "body"
    /\ start_time \in TsSamples
    /\ end_time = start_time + NUM_DAYS * SECONDS_PER_DAY
    /\ console = <<>>
    /\ files = <<>>
    /\ exit_code = None
    /\ sensors \in {<<s>> : s \in SensorSamples(pc)}
    /\ interval = IntervalOf(pc)
    /\ current = None
    /\ timestamps = <<start_time>>
    /\ ti = 1
    /\ batch = <<>>
    /\ nrecords = 0
    /\ returned = <<>>
    /\ variates = <<>>
    /\ rec = NoRecord

Appended(v, row) ==
    /\ variates' = v
    /\ rec' = row
    /\ nrecords' = nrecords + 1
    /\ gpc' = "appended"
    /\ UNCHANGED <<pc, start_time, end_time, console, files, exit_code, sensors,
                   interval, current, timestamps, ti, batch, returned>>

TrafficBody ==
    /\ pc = "generate_traffic_sensors"
    /\ gpc = "body"
    /\ \E c \in (0 - MaxZ)..MaxZ, s \in CoarseZ :
          LET v == [count |-> c, speed |-> s]
          IN  Appended(v, TrafficRecord(timestamps[ti], sensors[1], v))

AirQualityBody ==
    /\ pc = "generate_air_quality_data"
    /\ gpc = "body"
    /\ \E z \in [{"pm25", "pm10", "no2", "co", "temperature"} -> CoarseZ],
          u \in {0, UnitSteps} :
          LET v == [pm25 |-> z["pm25"], pm10 |-> z["pm10"], no2 |-> z["no2"],
                    co |-> z["co"], temperature |-> z["temperature"], humidity |-> u]
          IN  Appended(v, AirQualityRecord(timestamps[ti], sensors[1], v))

WeatherBody ==
    /\ pc = "generate_weather_data"
    /\ gpc = "body"
    /\ \E z \in CoarseZ, w \in 0..MaxExp, p \in {0, 9, 10, 99}, e \in 0..MaxExp :
          LET v == [humidity |-> z, wind |-> w, p |-> p, rain |-> e]
          IN  Appended(v, WeatherRecord(timestamps[ti], sensors[1], v))

EnergyBody ==
    /\ pc = "generate_energy_data"
    /\ gpc = "body"
    /\ \E u \in 0..UnitSteps :
          LET v == [u |-> u]
          IN  Appended(v, EnergyRecord(timestamps[ti], sensors[1], v))

RecNext ==
    \/ TrafficBody
    \/ AirQualityBody
    \/ WeatherBody
    \/ EnergyBody

RecSpec == RecInit /\ [][RecNext]_vars

----------------------------------------------------------------------------
(* Properties. *)

InGenerator == pc \in TimeSeriesGenerators

\* the identifier column of a sensor or of a row
IdOf(g, r) ==
    CASE g = "generate_weather_data" -> r.station_id
      [] g = "generate_energy_data" -> r.meter_id
      [] OTHER -> r.sensor_id

\* C1: for the generator's 7-day window, generate_timestamps returns exactly
\* 2016 timestamps at a 5-minute interval, 672 at 15 minutes, 336 at 30
\* minutes and 1008 at 10 minutes, whatever the two clock readings of the
\* constructor are.
C1_SevenDayCounts ==
    (InGenerator /\ gpc = "rows") =>
        Len(timestamps) = (CASE interval = 5 -> 2016
                             [] interval = 15 -> 672
                             [] interval = 30 -> 336
                             [] interval = 10 -> 1008)

\* C2: main returns 0 exactly when the constructor and all five generators
\* completed without raising; whenever one of them raised, a generic error
\* or an ImportError, a diagnostic is printed and main returns 1.
C2_ExitCode ==
    pc = "exit" =>
        LET raised == \E k \in 1..Len(console) : console[k] \in Diagnostics
        IN  /\ exit_code = 0 <=> ~raised
            /\ raised => exit_code = 1
            /\ ~raised <=> Len(files) = 5

DocSensors(g) ==
    CASE g = "generate_traffic_sensors" -> 50
      [] g = "generate_air_quality_data" -> 20
      [] g = "generate_weather_data" -> 10
      [] g = "generate_energy_data" -> 200

\* C3: a time-series generator's table holds exactly (number of timestamps
\* generate_timestamps returned) x (number of sensors) rows, with 50, 20, 10
\* and 200 sensors; every iteration of the outer loop appends one row per
\* sensor, all with the iteration's timestamp, which no earlier row has, and
\* with pairwise distinct identifiers; generate_city_zones' table has 8 rows.
C3_RecordCounts ==
    /\ (InGenerator /\ gpc = "rows") =>
          /\ nrecords = (ti - 1) * DocSensors(pc)
          /\ TableComplete => nrecords = Len(timestamps) * DocSensors(pc)
          /\ ti > 1 =>
                /\ Len(batch) = DocSensors(pc)
                /\ \A j \in 1..Len(batch) :
                      batch[j].timestamp = isoformat(timestamps[ti - 1])
                /\ Cardinality({IdOf(pc, batch[j]) : j \in 1..Len(batch)}) = Len(batch)
                /\ \A k \in 1..(ti - 2) : timestamps[k] < timestamps[ti - 1]
                /\ ti > 2 => isoformat(timestamps[ti - 2]) # batch[1].timestamp
    /\ (pc = "generate_city_zones" /\ gpc = "rows") =>
          nrecords = 8 /\ Len(batch) = 8
    /\ \A k \in 1..Len(console) :
          (console[k].msg = "Generated" /\ console[k].file = "city_zones.csv")
              => console[k].records = 8

C3_Witness ==
    /\ pc = "generate_energy_data"
    /\ TableComplete
    /\ nrecords = 1008 * 200

----------------------------------------------------------------------------

RowAppended(g) == pc = g /\ gpc = "appended"

DocRush(t) ==
    /\ hour(t) \in {7, 8, 9, 17, 18, 19}
    /\ weekday(t) < 5

\* C4: the congestion_level of a traffic row is a function of the written
\* vehicle_count and of base_count (30 for highway, 15 otherwise): in a
\* weekday rush-hour row "high" if vehicle_count > 1.5 * base_count else
\* "medium"; in any other row "low" if vehicle_count < 0.7 * base_count else
\* "medium"; a count equal to a threshold yields "medium".
C4_Congestion ==
    RowAppended("generate_traffic_sensors") =>
        LET base == IF rec.road_type = "highway" THEN 30 ELSE 15
            count == rec.vehicle_count
        IN  /\ rec.congestion_level =
                 (IF DocRush(timestamps[ti])
                  THEN (IF 2 * count > 3 * base THEN "high" ELSE "medium")
                  ELSE (IF 10 * count < 7 * base THEN "low" ELSE "medium"))
            /\ (2 * count = 3 * base \/ 10 * count = 7 * base)
                  => rec.congestion_level = "medium"

C4_Witness ==
    /\ RowAppended("generate_traffic_sensors")
    /\ rec.road_type = "highway"
    /\ rec.vehicle_count = 45
    /\ DocRush(timestamps[ti])
    /\ rec.congestion_level = "medium"

\* the documented base consumption and factor, in tenths
DocBaseConsumption(b) ==
    CASE b = "residential" -> 30
      [] b = "commercial" -> 150
      [] b = "industrial" -> 500
      [] b = "office" -> 200
      [] b = "retail" -> 250

DocFactor(b, t) ==
    CASE b \in {"commercial", "office", "retail"} ->
            (IF hour(t) \in 8..18 /\ weekday(t) < 5 THEN 15 ELSE 3)
      [] b = "industrial" -> 10
      [] b = "residential" -> (IF hour(t) \in 18..22 THEN 12 ELSE 8)

\* C5: an energy row's power_consumption is base * factor * u with u in
\* [0.7, 1.3], base 3.0/15.0/50.0/20.0/25.0 for residential/commercial/
\* industrial/office/retail, and the factor chosen from building type, hour
\* and weekday alone: 1.5 in hours 8..18 of a weekday and 0.3 otherwise for
\* commercial, office and retail; 1.0 for industrial; 1.2 in hours 18..22
\* and 0.8 otherwise for residential, weekend or not.
C5_ConsumptionFactor ==
    RowAppended("generate_energy_data") =>
        LET b == rec.building_type
            u == (7 * Unit) \div 10 + (6 * Unit * variates.u) \div (10 * UnitSteps)
        IN  /\ (7 * Unit) \div 10 <= u /\ u <= (13 * Unit) \div 10
            /\ rec.power_consumption =
                  (DocBaseConsumption(b) * DocFactor(b, timestamps[ti]) * u) \div 100

C5_Witness ==
    /\ RowAppended("generate_energy_data")
    /\ rec.building_type = "residential"
    /\ hour(timestamps[ti]) = 20
    /\ weekday(timestamps[ti]) = 6
    /\ variates.u = 0
    /\ 100 * rec.power_consumption = 252 * Unit

\* C6: whatever the variates, a traffic row has vehicle_count >= 0 and
\* avg_speed >= 5, and a weather row has humidity in [20, 100],
\* wind_speed >= 0 and precipitation >= 0.
C6_ClampedBounds ==
    /\ RowAppended("generate_traffic_sensors") =>
          rec.vehicle_count >= 0 /\ rec.avg_speed >= 5 * Unit
    /\ RowAppended("generate_weather_data") =>
          /\ 20 * Unit <= rec.humidity /\ rec.humidity <= 100 * Unit
          /\ rec.wind_speed >= 0
          /\ rec.precipitation >= 0

C6_Witness ==
    /\ RowAppended("generate_traffic_sensors")
    /\ variates.count = 0 - MaxZ
    /\ variates.speed = (0 - MaxSigma) * 12
    /\ ~DocRush(timestamps[ti])
    /\ rec.vehicle_count = 0
    /\ rec.avg_speed = 5 * Unit

DocPollutionFactor(t) == IF hour(t) \in {7, 8, 9, 17, 18, 19} THEN 13 ELSE 10

DocPollutant(mean10, sd10, t, k) ==
    LET draw == (mean10 * DocPollutionFactor(t) * Unit) \div 100
                    + (sd10 * Unit * k) \div 120
    IN  IF draw < 0 THEN 0 ELSE draw

\* C7 as stated: in an air-quality row each of pm25, pm10, no2, co and
\* temperature is floored at 0, humidity is the unclamped uniform draw in
\* [30, 80], the pollutant means are scaled by 1.3 in hours 7..9 and 17..19
\* and by 1.0 otherwise, and temperature is not scaled.
C7_AllFloored ==
    RowAppended("generate_air_quality_data") =>
        /\ rec.pm25 >= 0 /\ rec.pm10 >= 0 /\ rec.no2 >= 0 /\ rec.co >= 0
        /\ rec.temperature >= 0
        /\ 30 * Unit <= rec.humidity /\ rec.humidity <= 80 * Unit

\* C7, amended: in an air-quality row each of pm25, pm10, no2 and co is
\* max(0, draw) for a normal draw whose mean is scaled by 1.3 in hours 7..9
\* and 17..19 and by 1.0 otherwise; temperature is the normal draw around
\* 20, neither scaled nor floored (it can be negative); humidity is the
\* unclamped uniform draw and lies in [30, 80].
C7_PollutantsFloored ==
    RowAppended("generate_air_quality_data") =>
        /\ rec.pm25 = DocPollutant(250, 80, timestamps[ti], variates.pm25)
        /\ rec.pm10 = DocPollutant(400, 120, timestamps[ti], variates.pm10)
        /\ rec.no2 = DocPollutant(300, 100, timestamps[ti], variates.no2)
        /\ rec.co = DocPollutant(12, 4, timestamps[ti], variates.co)
        /\ rec.pm25 >= 0 /\ rec.pm10 >= 0 /\ rec.no2 >= 0 /\ rec.co >= 0
        /\ rec.temperature = 20 * Unit + (8 * Unit * variates.temperature) \div 12
        /\ rec.humidity = 30 * Unit + (50 * Unit * variates.humidity) \div UnitSteps
        /\ 30 * Unit <= rec.humidity /\ rec.humidity <= 80 * Unit

C7_Witness ==
    /\ RowAppended("generate_air_quality_data")
    /\ hour(timestamps[ti]) = 18
    /\ rec.temperature < 0
    /\ rec.co = 0
    /\ rec.pm25 > 0
    /\ variates.pm25 < 0

----------------------------------------------------------------------------

DocFiles ==
    <<"traffic_sensors.csv", "air_quality.json", "weather_data.parquet",
      "energy_meters.csv", "city_zones.csv">>

DocOrder ==
    <<"generate_traffic_sensors", "generate_air_quality_data",
      "generate_weather_data", "generate_energy_data", "generate_city_zones">>

IsStart(m) == m.msg = "Generating"

\* the generators started so far, in order
Started == SelectSeq(console, IsStart)

Succeeded == \E k \in 1..Len(console) : console[k] = SuccessMessage

Failed == \E k \in 1..Len(console) : console[k] \in Diagnostics

C8_State ==
    /\ Len(files) <= 5
    /\ files = SubSeq(DocFiles, 1, Len(files))
    /\ Len(Started) <= 5
    /\ \A k \in 1..Len(Started) : Started[k].generator = DocOrder[k]
    /\ Len(Started) \in {Len(files), Len(files) + 1}
    /\ pc \in Generators =>
          /\ pc = DocOrder[Len(files) + 1]
          /\ Len(Started) = Len(files) + 1 <=> gpc # "idle"
    /\ Succeeded <=> (pc = "exit" /\ Len(files) = 5)
    /\ Succeeded => ~Failed
    /\ Failed => (pc = "exit" /\ Len(files) < 5)
    /\ pc = "exit" => (Succeeded \/ Failed)

C8_Step ==
    /\ files' = files \/ files' = Append(files, DocFiles[Len(files) + 1])
    /\ Len(files') > Len(files) => (TableComplete /\ OutputFile(pc) = files'[Len(files')])
    /\ Failed => (files' = files /\ console' = console /\ pc' = "exit")
    /\ Len(Started') > Len(Started) =>
          /\ ~Failed'
          /\ Len(Started) = Len(files)

\* C8: the five generators run strictly in the order traffic, air quality,
\* weather, energy, city zones, each at most once, each writing its one file
\* before the next starts; the files written are at every point a prefix of
\* traffic_sensors.csv, air_quality.json, weather_data.parquet,
\* energy_meters.csv, city_zones.csv, all five exactly when the run succeeds;
\* after a failure no generator starts, nothing is retried, and the files
\* written before it stay written.
C8_SequentialPrefix == [](C8_State) /\ [][C8_Step]_vars

C8_Witness ==
    /\ pc = "exit"
    /\ Failed
    /\ files = <<"traffic_sensors.csv", "air_quality.json">>
    /\ Len(Started) = 3

----------------------------------------------------------------------------

C9_Result(r) ==
    LET ts == r.result
        step == r.interval_minutes * 60
    IN  /\ Len(ts) >= 1
        /\ Len(ts) <= end_time - start_time
        /\ ts[1] = start_time
        /\ \A k \in 1..(Len(ts) - 1) : ts[k] < ts[k + 1] /\ ts[k + 1] - ts[k] = step
        /\ \A k \in 1..Len(ts) : ts[k] < end_time
        /\ ts[Len(ts)] + step >= end_time

C9_State ==
    /\ \A i \in 1..Len(returned) : C9_Result(returned[i])
    /\ \A i, j \in 1..Len(returned) :
          returned[i].interval_minutes = returned[j].interval_minutes
              => returned[i].result = returned[j].result

\* C9: for any start_time < end_time and any positive interval,
\* generate_timestamps terminates and returns a finite, strictly increasing
\* sequence that starts at start_time, advances by exactly the interval,
\* stays strictly below end_time and whose last element t has
\* t + interval >= end_time; successive calls with the same interval return
\* equal sequences.
C9_Timestamps == [](C9_State) /\ ((gpc = "ts_loop") ~> (gpc = "idle"))

C9_Witness ==
    /\ Len(returned) = 2
    /\ returned[1].interval_minutes = 1
    /\ returned[2].interval_minutes = 1
    /\ Len(returned[2].result) = 2
    /\ returned[2].result[2] + 60 = end_time

----------------------------------------------------------------------------

DocFirstId(g) ==
    CASE g = "generate_traffic_sensors" -> "TRAFFIC_001"
      [] g = "generate_air_quality_data" -> "AQ_001"
      [] g = "generate_weather_data" -> "WEATHER_001"
      [] g = "generate_energy_data" -> "ENERGY_0001"

DocLastId(g) ==
    CASE g = "generate_traffic_sensors" -> "TRAFFIC_050"
      [] g = "generate_air_quality_data" -> "AQ_020"
      [] g = "generate_weather_data" -> "WEATHER_010"
      [] g = "generate_energy_data" -> "ENERGY_0200"

\* the categorical attribute of a sensor or of a row (none for two datasets)
CategoryOf(g, r) ==
    CASE g = "generate_traffic_sensors" -> r.road_type
      [] g = "generate_energy_data" -> r.building_type
      [] OTHER -> "none"

JustCreated == gpc = "ts_loop" /\ timestamps = <<>>

C10_State ==
    /\ (InGenerator /\ JustCreated) =>
          /\ Len(sensors) = DocSensors(pc)
          /\ IdOf(pc, sensors[1]) = DocFirstId(pc)
          /\ IdOf(pc, sensors[Len(sensors)]) = DocLastId(pc)
          /\ \A j \in 1..Len(sensors) :
                /\ Len(IdOf(pc, sensors[j])) = Len(DocLastId(pc))
                /\ 407000 <= sensors[j].lat /\ sensors[j].lat <= 408000
                /\ -740200 <= sensors[j].lon /\ sensors[j].lon <= -739000
          /\ Cardinality({IdOf(pc, sensors[j]) : j \in 1..Len(sensors)}) = Len(sensors)
    /\ (InGenerator /\ gpc = "rows") =>
          \A j \in 1..Len(batch) :
              /\ IdOf(pc, batch[j]) = IdOf(pc, sensors[j])
              /\ batch[j].location_lat = sensors[j].lat
              /\ batch[j].location_lon = sensors[j].lon
              /\ CategoryOf(pc, batch[j]) = CategoryOf(pc, sensors[j])

C10_Step == (sensors # <<>> /\ sensors' # <<>>) => sensors' = sensors

\* C10: within one run of a generator the sensors are created once and
\* never change: the identifiers are pairwise distinct (TRAFFIC_001 ..
\* TRAFFIC_050, AQ_001 .. AQ_020, WEATHER_001 .. WEATHER_010, ENERGY_0001 ..
\* ENERGY_0200), every row carries the latitude, longitude and road_type or
\* building_type of the sensor whose identifier it carries, at every
\* timestamp, and latitudes lie in [40.70, 40.80], longitudes in
\* [-74.02, -73.90].
C10_SensorsImmutable == [](C10_State) /\ [][C10_Step]_vars

C10_Witness ==
    /\ pc = "generate_energy_data"
    /\ gpc = "rows"
    /\ ti > 2
    /\ batch[200].meter_id = "ENERGY_0200"
    /\ batch[200].location_lat = sensors[200].lat

====
